---- MODULE Spec2Model ----
(***************************************************************************)
(* Model of graphics/vnc/server/vnc_server.c: the per-display VNC server   *)
(* daemon (vnc_server), its session reset (vnc_reset_session), the         *)
(* connection acceptor (vnc_connect) and the registry lookup               *)
(* (vnc_find_session), together with the update queue that the session     *)
(* record carries (updfree / updqueue / freesem / queuesem).               *)
(*                                                                         *)
(* Three threads are modelled: the driver loop of vnc_server, the capture  *)
(* side producer and the updater (consumer).  The bodies of vnc_negotiate, *)
(* vnc_start_updater, vnc_receiver, vnc_stop_updater and of the four queue *)
(* operations are not in vnc_server.c; they are modelled from the          *)
(* specification's contracts.                                              *)
(***************************************************************************)
EXTENDS Integers, Sequences, FiniteSets, TLC

(* ------------------------------ bounds --------------------------------- *)

\* largest CONFIG_VNCSERVER_NUPDATES explored (the pool capacity N is drawn
\* from 1..MaxNUpdates when the session record is allocated)
MaxNUpdates == 3

\* largest number of publish calls recorded per connection cycle
MaxPub == 3

(* ----------------------- program constants ----------------------------- *)

\* enum vnc_server_e (vnc_server.h); vnc_reset_session compares with >=
VNCSERVER_UNINITIALIZED == 0
VNCSERVER_INITIALIZED == 1
VNCSERVER_CONNECTED == 2
VNCSERVER_RUNNING == 3

\* number of display slots of g_vnc_sessions[]
RFB_MAX_DISPLAYS == 2

OK == 0
NULL == 0

\* descriptor ids: updpool[k] is id k+1, NULL is 0
PoolIds == 1..MaxNUpdates

VARIABLES
  pc,              \* position of the vnc_server thread
  nupdates,        \* CONFIG_VNCSERVER_NUPDATES of this build
  display,         \* local 'display' of vnc_server
  ret,             \* local 'ret' of vnc_server
  fb,              \* local 'fb' of vnc_server: 0 = none, 1 = the buffer
  fbfreed,         \* the framebuffer was handed to kmm_free
  exitcode,        \* value returned by vnc_server (0 while it has not returned)
  g_vnc_sessions,  \* registry: display -> NULL or session id (display + 1)
  cause,           \* which startup check made vnc_server return
  other_sessions,  \* session records that the servers of other displays own
  find_arg,        \* argument of the last vnc_find_session call
  found,           \* what the last vnc_find_session call returned
  state,           \* session->state
  listen,          \* session->listen is an open socket
  connect,         \* session->connect is an open socket
  session_fb,      \* session->fb
  updqueue,        \* session->updqueue  [head, tail]
  updfree,         \* session->updfree   [head, tail]
  flink,           \* updpool[k].flink, by descriptor id
  freesem,         \* session->freesem count
  queuesem,        \* session->queuesem count
  g_fbsem,         \* g_fbsem[]: capture-ready semaphore count per display
  updater,         \* an updater thread is active against the session
  cons_held,       \* descriptor checked out by the updater (0 = none)
  cons_pc,         \* "run" | "fault"
  prod_pc,         \* "wait" | "acquire" | "publish" | "fault"
  prod_held,       \* descriptor checked out by the producer (0 = none)
  badclose,        \* psock_close was applied to a socket that is not open
  cycle,           \* history of the current loop iteration
  prev,            \* how the previous loop iteration ended
  pubSeq,          \* descriptors published since the last reset
  consSeq          \* descriptors consumed since the last reset

drv_vars == <<display, fb, fbfreed, exitcode, g_vnc_sessions, cause,
              other_sessions, find_arg, found>>
sess_vars == <<state, listen, connect, session_fb, badclose>>
queue_vars == <<updqueue, updfree, flink, freesem, queuesem>>
upd_vars == <<updater, cons_held, cons_pc>>
prod_vars == <<prod_pc, prod_held>>
hist_vars == <<cycle, prev, pubSeq, consSeq>>

vars == <<pc, nupdates, display, ret, fb, fbfreed, exitcode, g_vnc_sessions,
          cause, other_sessions, find_arg, found,
          state, listen, connect, session_fb, updqueue, updfree, flink,
          freesem, queuesem, g_fbsem, updater, cons_held, cons_pc,
          prod_pc, prod_held, badclose, cycle, prev, pubSeq, consSeq>>

(* ----------------------- singly linked queues -------------------------- *)

EmptyQueue == [head |-> NULL, tail |-> NULL]

\* sq_init(): head = tail = NULL
sq_init == EmptyQueue

\* sq_addlast(node, queue): returns the queue and the links afterwards
sq_addlast(q, fl, node) ==
  LET fl1 == [fl EXCEPT ![node] = NULL]
  IN  IF q.head = NULL
      THEN [q |-> [head |-> node, tail |-> node], fl |-> fl1]
      ELSE [q |-> [head |-> q.head, tail |-> node],
            fl |-> [fl1 EXCEPT ![q.tail] = node]]

\* sq_remfirst(queue): returns the removed entry (NULL when the queue is
\* empty), the queue and the links afterwards
sq_remfirst(q, fl) ==
  IF q.head = NULL
  THEN [node |-> NULL, q |-> q, fl |-> fl]
  ELSE LET nh == fl[q.head]
       IN  [node |-> q.head,
            q |-> [head |-> nh, tail |-> IF nh = NULL THEN NULL ELSE q.tail],
            fl |-> [fl EXCEPT ![q.head] = NULL]]

\* the entries met when following flink from h, at most 'fuel' of them
RECURSIVE Walk(_, _, _)
Walk(h, fl, fuel) ==
  IF h = NULL \/ fuel = 0 THEN <<>>
  ELSE <<h>> \o Walk(fl[h], fl, fuel - 1)

Members(q, fl) == Walk(q.head, fl, MaxNUpdates + 2)

MemberSet(q, fl) == { Members(q, fl)[i] : i \in 1..Len(Members(q, fl)) }

(* --------------------------- vnc_reset_session ------------------------- *)

\* for (i = 1; i < CONFIG_VNCSERVER_NUPDATES-1; i++)
\*   { curr = next; next = &updpool[i]; curr->flink = next; }
\* next->flink = NULL;
RECURSIVE reset_links(_, _, _, _)
reset_links(i, next, fl, n) ==
  IF i < n - 1
  THEN reset_links(i + 1, i + 1, [fl EXCEPT ![next] = i + 1], n)
  ELSE [fl EXCEPT ![next] = NULL]

\* the free list as lines 114-127 leave it
reset_updfree(n) == [head |-> 1, tail |-> n]

\* sem_reset(sem, count)
sem_reset(count) == count

\* psock_close(): the socket is closed afterwards
psock_close(sock) == FALSE

\* vnc_reset_session with line 134 left out (the state is not set)
vnc_reset_session_keeps_state ==
  /\ IF state >= VNCSERVER_CONNECTED
     THEN /\ connect' = psock_close(connect)
          /\ listen' = psock_close(listen)
          /\ badclose' = (badclose \/ ~connect \/ ~listen)
     ELSE UNCHANGED <<connect, listen, badclose>>
  /\ updqueue' = sq_init
  /\ updfree' = reset_updfree(nupdates)
  /\ flink' = reset_links(1, 1, flink, nupdates)
  /\ freesem' = sem_reset(nupdates)
  /\ queuesem' = sem_reset(0)
  /\ session_fb' = fb
  /\ state' = state

\* vnc_reset_session that clears the framebuffer pointer of the session
vnc_reset_session_drops_fb ==
  /\ IF state >= VNCSERVER_CONNECTED
     THEN /\ connect' = psock_close(connect)
          /\ listen' = psock_close(listen)
          /\ badclose' = (badclose \/ ~connect \/ ~listen)
     ELSE UNCHANGED <<connect, listen, badclose>>
  /\ updqueue' = sq_init
  /\ updfree' = reset_updfree(nupdates)
  /\ flink' = reset_links(1, 1, flink, nupdates)
  /\ freesem' = sem_reset(nupdates)
  /\ queuesem' = sem_reset(0)
  /\ session_fb' = NULL
  /\ state' = VNCSERVER_INITIALIZED

\* vnc_reset_session that closes both sockets whatever the session state is
vnc_reset_session_closes_always ==
  /\ connect' = psock_close(connect)
  /\ listen' = psock_close(listen)
  /\ badclose' = (badclose \/ ~connect \/ ~listen)
  /\ updqueue' = sq_init
  /\ updfree' = reset_updfree(nupdates)
  /\ flink' = reset_links(1, 1, flink, nupdates)
  /\ freesem' = sem_reset(nupdates)
  /\ queuesem' = sem_reset(0)
  /\ session_fb' = fb
  /\ state' = VNCSERVER_INITIALIZED

\* vnc_reset_session with line 103 testing state > VNCSERVER_CONNECTED
vnc_reset_session_gt ==
  /\ IF state > VNCSERVER_CONNECTED
     THEN /\ connect' = psock_close(connect)
          /\ listen' = psock_close(listen)
          /\ badclose' = (badclose \/ ~connect \/ ~listen)
     ELSE UNCHANGED <<connect, listen, badclose>>
  /\ updqueue' = sq_init
  /\ updfree' = reset_updfree(nupdates)
  /\ flink' = reset_links(1, 1, flink, nupdates)
  /\ freesem' = sem_reset(nupdates)
  /\ queuesem' = sem_reset(0)
  /\ session_fb' = fb
  /\ state' = VNCSERVER_INITIALIZED

vnc_reset_session ==
  /\ IF state >= VNCSERVER_CONNECTED
     THEN /\ connect' = psock_close(connect)
          /\ listen' = psock_close(listen)
          /\ badclose' = (badclose \/ ~connect \/ ~listen)
     ELSE UNCHANGED <<connect, listen, badclose>>
  /\ updqueue' = sq_init
  /\ updfree' = reset_updfree(nupdates)
  /\ flink' = reset_links(1, 1, flink, nupdates)
  /\ freesem' = sem_reset(nupdates)
  /\ queuesem' = sem_reset(0)
  /\ session_fb' = fb
  /\ state' = VNCSERVER_INITIALIZED

(* ------------------------------ vnc_connect ---------------------------- *)

ConnectOutcomes == {"socket_fail", "bind_fail", "listen_fail", "accept_fail", "ok"}

\* -get_errno() of the failing call
neg_errno(o) ==
  CASE o = "socket_fail" -> -24
    [] o = "bind_fail" -> -98
    [] o = "listen_fail" -> -95
    [] o = "accept_fail" -> -103
    [] OTHER -> OK

\* vnc_connect closing the listener right after a successful accept
vnc_connect_closes_listener(o) ==
  IF o = "socket_fail"
  THEN [ret |-> neg_errno(o), listen |-> listen, connect |-> connect,
        state |-> state]
  ELSE IF o \in {"bind_fail", "listen_fail", "accept_fail"}
  THEN [ret |-> neg_errno(o), listen |-> psock_close(TRUE),
        connect |-> connect, state |-> state]
  ELSE [ret |-> OK, listen |-> psock_close(TRUE), connect |-> TRUE,
        state |-> VNCSERVER_CONNECTED]

\* vnc_connect returning from a failed accept without errout_with_listener
vnc_connect_leaks_listener(o) ==
  IF o = "socket_fail"
  THEN [ret |-> neg_errno(o), listen |-> listen, connect |-> connect,
        state |-> state]
  ELSE IF o \in {"bind_fail", "listen_fail"}
  THEN [ret |-> neg_errno(o), listen |-> psock_close(TRUE),
        connect |-> connect, state |-> state]
  ELSE IF o = "accept_fail"
  THEN [ret |-> neg_errno(o), listen |-> TRUE, connect |-> connect,
        state |-> state]
  ELSE [ret |-> OK, listen |-> TRUE, connect |-> TRUE,
        state |-> VNCSERVER_CONNECTED]

\* vnc_connect(): what the session holds and what is returned when the
\* socket calls end as 'o' says
vnc_connect(o) ==
  IF o = "socket_fail"
  THEN \* psock_socket failed: return ret
       [ret |-> neg_errno(o), listen |-> listen, connect |-> connect,
        state |-> state]
  ELSE IF o \in {"bind_fail", "listen_fail", "accept_fail"}
  THEN \* goto errout_with_listener: psock_close(&session->listen)
       [ret |-> neg_errno(o), listen |-> psock_close(TRUE),
        connect |-> connect, state |-> state]
  ELSE \* accept succeeded: both sockets are open
       [ret |-> OK, listen |-> TRUE, connect |-> TRUE,
        state |-> VNCSERVER_CONNECTED]

(* ------------------------- collaborators (contracts) ------------------- *)

\* vnc_start_updater() success: the updater thread runs, session is RUNNING
vnc_start_updater_ok ==
  /\ updater' = TRUE
  /\ cons_pc' = "run"
  /\ cons_held' = NULL
  /\ state' = VNCSERVER_RUNNING

\* vnc_stop_updater(): the updater thread has ended when it returns, with
\* either status; a descriptor it was consuming goes back to the free list
vnc_stop_updater ==
  /\ updater' = FALSE
  /\ cons_held' = NULL
  /\ cons_pc' = "run"
  /\ IF cons_held # NULL
     THEN LET r == sq_addlast(updfree, flink, cons_held)
          IN  /\ updfree' = r.q
              /\ flink' = r.fl
              /\ freesem' = freesem + 1
     ELSE UNCHANGED <<updfree, flink, freesem>>
  /\ UNCHANGED <<updqueue, queuesem>>

(* ------------------------------ vnc_server ----------------------------- *)

\* the display slots of g_vnc_sessions[] and g_fbsem[]
Displays == 0..(RFB_MAX_DISPLAYS - 1)

\* the session record of a display whose server has not allocated one
NoSession == [state |-> VNCSERVER_UNINITIALIZED, listen |-> FALSE,
              connect |-> FALSE]

\* the session record allocated by the server of another display d: an
\* allocation different from the one of this server (display + 1)
OtherSession(d) == RFB_MAX_DISPLAYS + d + 1

\* g_fbsem[display] of the display this server runs for
FbSem == IF display \in Displays THEN g_fbsem[display] ELSE 0

NewCycle == [posts |-> 0, accepted |-> FALSE, negotiated |-> FALSE,
             started |-> FALSE]

EXIT_FAILURE == 1
ENOMEM == 12

Init ==
  /\ pc = "start"
  /\ nupdates \in 1..MaxNUpdates
  /\ display = 0
  /\ ret = 0
  /\ fb = NULL
  /\ fbfreed = FALSE
  /\ exitcode = 0
  /\ g_vnc_sessions = [d \in Displays |-> NULL]
  /\ cause = "none"
  /\ other_sessions = [d \in Displays |-> NoSession]
  /\ find_arg = 0
  /\ found = [aborted |-> FALSE, session |-> NULL]
  /\ state = VNCSERVER_UNINITIALIZED
  /\ listen = FALSE
  /\ connect = FALSE
  /\ session_fb = NULL
  /\ updqueue = EmptyQueue
  /\ updfree = EmptyQueue
  /\ flink = [d \in PoolIds |-> NULL]
  /\ freesem = 0
  /\ queuesem = 0
  /\ g_fbsem = [d \in Displays |-> 0]
  /\ updater = FALSE
  /\ cons_held = NULL
  /\ cons_pc = "run"
  /\ prod_pc = "wait"
  /\ prod_held = NULL
  /\ badclose = FALSE
  /\ cycle = NewCycle
  /\ prev = "none"
  /\ pubSeq = <<>>
  /\ consSeq = <<>>

\* vnc_server startup whose session-allocation failure returns without
\* kmm_free(fb)
vnc_server_startup_leaks_fb ==
  /\ pc = "start"
  /\ \E asserts \in BOOLEAN, argc \in {1, 2},
        disp \in (-1)..RFB_MAX_DISPLAYS, fbok \in BOOLEAN, sessok \in BOOLEAN :
       IF asserts
       THEN /\ pc' = "abort"
            /\ UNCHANGED <<display, fb, fbfreed, exitcode, g_vnc_sessions,
                           freesem, queuesem, cause>>
       ELSE IF argc # 2
       THEN /\ pc' = "exit"
            /\ exitcode' = EXIT_FAILURE
            /\ cause' = "argc"
            /\ UNCHANGED <<display, fb, fbfreed, g_vnc_sessions, freesem,
                           queuesem>>
       ELSE IF disp < 0 \/ disp >= RFB_MAX_DISPLAYS
       THEN /\ pc' = "exit"
            /\ exitcode' = EXIT_FAILURE
            /\ cause' = "display"
            /\ display' = disp
            /\ UNCHANGED <<fb, fbfreed, g_vnc_sessions, freesem, queuesem>>
       ELSE IF ~fbok
       THEN /\ pc' = "exit"
            /\ exitcode' = -ENOMEM
            /\ cause' = "fb_alloc"
            /\ display' = disp
            /\ UNCHANGED <<fb, fbfreed, g_vnc_sessions, freesem, queuesem>>
       ELSE IF ~sessok
       THEN /\ pc' = "exit"
            /\ exitcode' = EXIT_FAILURE
            /\ cause' = "session_alloc"
            /\ display' = disp
            /\ fb' = 1
            /\ UNCHANGED <<fbfreed, g_vnc_sessions, freesem, queuesem>>
       ELSE /\ pc' = "reset"
            /\ display' = disp
            /\ fb' = 1
            /\ g_vnc_sessions' = [g_vnc_sessions EXCEPT ![disp] = disp + 1]
            /\ freesem' = nupdates
            /\ queuesem' = 0
            /\ UNCHANGED <<fbfreed, exitcode, cause>>
  /\ UNCHANGED <<nupdates, ret, sess_vars, updqueue, updfree, flink, g_fbsem,
                 upd_vars, prod_vars, hist_vars, other_sessions, find_arg,
                 found>>

\* lines 231-271: argument checks, allocations, registration, sem_init
vnc_server_startup ==
  /\ pc = "start"
  /\ \E asserts \in BOOLEAN, argc \in {1, 2},
        disp \in (-1)..RFB_MAX_DISPLAYS, fbok \in BOOLEAN, sessok \in BOOLEAN :
       IF asserts
       THEN \* DEBUGASSERT(session != NULL) reads the uninitialized local
            /\ pc' = "abort"
            /\ UNCHANGED <<display, fb, fbfreed, exitcode, g_vnc_sessions,
                           freesem, queuesem, cause>>
       ELSE IF argc # 2
       THEN /\ pc' = "exit"
            /\ exitcode' = EXIT_FAILURE
            /\ cause' = "argc"
            /\ UNCHANGED <<display, fb, fbfreed, g_vnc_sessions, freesem,
                           queuesem>>
       ELSE IF disp < 0 \/ disp >= RFB_MAX_DISPLAYS
       THEN /\ pc' = "exit"
            /\ exitcode' = EXIT_FAILURE
            /\ cause' = "display"
            /\ display' = disp
            /\ UNCHANGED <<fb, fbfreed, g_vnc_sessions, freesem, queuesem>>
       ELSE IF ~fbok
       THEN /\ pc' = "exit"
            /\ exitcode' = -ENOMEM
            /\ cause' = "fb_alloc"
            /\ display' = disp
            /\ UNCHANGED <<fb, fbfreed, g_vnc_sessions, freesem, queuesem>>
       ELSE IF ~sessok
       THEN \* errout_with_fb: kmm_free(fb)
            /\ pc' = "exit"
            /\ exitcode' = EXIT_FAILURE
            /\ cause' = "session_alloc"
            /\ display' = disp
            /\ fb' = 1
            /\ fbfreed' = TRUE
            /\ UNCHANGED <<g_vnc_sessions, freesem, queuesem>>
       ELSE /\ pc' = "reset"
            /\ display' = disp
            /\ fb' = 1
            /\ g_vnc_sessions' = [g_vnc_sessions EXCEPT ![disp] = disp + 1]
            /\ freesem' = nupdates
            /\ queuesem' = 0
            /\ UNCHANGED <<fbfreed, exitcode, cause>>
  /\ UNCHANGED <<nupdates, ret, sess_vars, updqueue, updfree, flink, g_fbsem,
                 upd_vars, prod_vars, hist_vars, other_sessions, find_arg,
                 found>>

\* line 283: vnc_reset_session(session, fb)
vnc_server_reset ==
  /\ pc = "reset"
  /\ vnc_reset_session
  /\ pc' = "clear_fbsem"
  /\ cycle' = NewCycle
  /\ pubSeq' = <<>>
  /\ consSeq' = <<>>
  /\ UNCHANGED <<nupdates, ret, drv_vars, g_fbsem, upd_vars, prod_vars, prev>>

\* the loop with line 284 left out
vnc_server_clear_fbsem_skipped ==
  /\ pc = "clear_fbsem"
  /\ pc' = "connect"
  /\ UNCHANGED <<nupdates, ret, drv_vars, sess_vars, queue_vars, upd_vars,
                 prod_vars, hist_vars, g_fbsem>>

\* vnc_server loop that clears the capture-ready signal of every display
vnc_server_clear_fbsem_all_displays ==
  /\ pc = "clear_fbsem"
  /\ g_fbsem' = [d \in Displays |-> sem_reset(0)]
  /\ pc' = "connect"
  /\ UNCHANGED <<nupdates, ret, drv_vars, sess_vars, queue_vars, upd_vars,
                 prod_vars, hist_vars>>

\* line 284: sem_reset(&g_fbsem[display], 0)
vnc_server_clear_fbsem ==
  /\ pc = "clear_fbsem"
  /\ g_fbsem' = [g_fbsem EXCEPT ![display] = sem_reset(0)]
  /\ pc' = "connect"
  /\ UNCHANGED <<nupdates, ret, drv_vars, sess_vars, queue_vars, upd_vars,
                 prod_vars, hist_vars>>

\* lines 288-289: ret = vnc_connect(...); if (ret >= 0) {...}
vnc_server_connect ==
  /\ pc = "connect"
  /\ \E o \in ConnectOutcomes :
       LET r == vnc_connect(o)
       IN  /\ ret' = r.ret
           /\ listen' = r.listen
           /\ connect' = r.connect
           /\ state' = r.state
           /\ IF r.ret >= 0
              THEN /\ pc' = "negotiate"
                   /\ cycle' = [cycle EXCEPT !.accepted = TRUE]
                   /\ prev' = prev
              ELSE /\ pc' = "reset"
                   /\ cycle' = cycle
                   /\ prev' = "connect_fail"
  /\ UNCHANGED <<nupdates, drv_vars, session_fb, badclose, queue_vars,
                 g_fbsem, upd_vars, prod_vars, pubSeq, consSeq>>

\* vnc_server loop that leaves the loop when the negotiation fails
vnc_server_negotiate_breaks ==
  /\ pc = "negotiate"
  /\ \E r \in {-1, OK} :
       /\ ret' = r
       /\ IF r < 0
          THEN /\ pc' = "exit"
               /\ prev' = "negotiate_fail"
               /\ cycle' = cycle
          ELSE /\ pc' = "start_updater"
               /\ prev' = prev
               /\ cycle' = [cycle EXCEPT !.negotiated = TRUE]
  /\ UNCHANGED <<nupdates, drv_vars, sess_vars, queue_vars, g_fbsem,
                 upd_vars, prod_vars, pubSeq, consSeq>>

\* lines 298-304: ret = vnc_negotiate(session); if (ret < 0) continue;
vnc_server_negotiate ==
  /\ pc = "negotiate"
  /\ \E r \in {-1, OK} :
       /\ ret' = r
       /\ IF r < 0
          THEN /\ pc' = "reset"
               /\ prev' = "negotiate_fail"
               /\ cycle' = cycle
          ELSE /\ pc' = "start_updater"
               /\ prev' = prev
               /\ cycle' = [cycle EXCEPT !.negotiated = TRUE]
  /\ UNCHANGED <<nupdates, drv_vars, sess_vars, queue_vars, g_fbsem,
                 upd_vars, prod_vars, pubSeq, consSeq>>

\* the loop with the 'continue' of line 314 left out
vnc_server_start_updater_no_continue ==
  /\ pc = "start_updater"
  /\ \E r \in {-1, OK} :
       /\ ret' = r
       /\ IF r < 0
          THEN /\ pc' = "post_fbsem"
               /\ prev' = prev
               /\ cycle' = cycle
               /\ UNCHANGED <<updater, cons_pc, cons_held, state>>
          ELSE /\ pc' = "post_fbsem"
               /\ prev' = prev
               /\ cycle' = [cycle EXCEPT !.started = TRUE]
               /\ vnc_start_updater_ok
  /\ UNCHANGED <<nupdates, drv_vars, listen, connect, session_fb, badclose,
                 queue_vars, g_fbsem, prod_vars, pubSeq, consSeq>>

\* lines 310-315: ret = vnc_start_updater(session); if (ret < 0) continue;
vnc_server_start_updater ==
  /\ pc = "start_updater"
  /\ \E r \in {-1, OK} :
       /\ ret' = r
       /\ IF r < 0
          THEN /\ pc' = "reset"
               /\ prev' = "start_fail"
               /\ cycle' = cycle
               /\ UNCHANGED <<updater, cons_pc, cons_held, state>>
          ELSE /\ pc' = "post_fbsem"
               /\ prev' = prev
               /\ cycle' = [cycle EXCEPT !.started = TRUE]
               /\ vnc_start_updater_ok
  /\ UNCHANGED <<nupdates, drv_vars, listen, connect, session_fb, badclose,
                 queue_vars, g_fbsem, prod_vars, pubSeq, consSeq>>

\* line 321: sem_post(&g_fbsem[display])
vnc_server_post_fbsem ==
  /\ pc = "post_fbsem"
  /\ g_fbsem' = [g_fbsem EXCEPT ![display] = @ + 1]
  /\ cycle' = [cycle EXCEPT !.posts = @ + 1]
  /\ pc' = "receiver"
  /\ UNCHANGED <<nupdates, ret, drv_vars, sess_vars, queue_vars, upd_vars,
                 prod_vars, prev, pubSeq, consSeq>>

\* lines 329-330: ret = vnc_receiver(session), returns with any status
vnc_server_receiver ==
  /\ pc = "receiver"
  /\ \E r \in {-1, OK} : ret' = r
  /\ pc' = "stop_updater"
  /\ UNCHANGED <<nupdates, drv_vars, sess_vars, queue_vars, g_fbsem,
                 upd_vars, prod_vars, hist_vars>>

\* lines 334-339: ret = vnc_stop_updater(session); a failure is only logged
vnc_server_stop_updater ==
  /\ pc = "stop_updater"
  /\ \E r \in {-1, OK} :
       /\ ret' = r
       /\ prev' = (IF r = OK THEN "stopped" ELSE "stop_fail")
  /\ vnc_stop_updater
  /\ pc' = "reset"
  /\ UNCHANGED <<nupdates, drv_vars, sess_vars, g_fbsem, prod_vars, cycle,
                 pubSeq, consSeq>>

(* ------------------- producer (capture driver) contract ---------------- *)

\* the capture driver waits for the capture-ready signal: sem_wait(g_fbsem)
producer_wait_ready ==
  /\ prod_pc = "wait"
  /\ FbSem > 0
  /\ g_fbsem' = [g_fbsem EXCEPT ![display] = @ - 1]
  /\ prod_pc' = "acquire"
  /\ UNCHANGED <<pc, nupdates, ret, drv_vars, sess_vars, queue_vars,
                 upd_vars, prod_held, hist_vars>>

\* acquire_free(): wait on freesem, then take the head of the free list;
\* the caller stops when the list hands it NULL
acquire_free ==
  /\ prod_pc = "acquire"
  /\ freesem > 0
  /\ LET r == sq_remfirst(updfree, flink)
     IN  /\ freesem' = freesem - 1
         /\ updfree' = r.q
         /\ flink' = r.fl
         /\ prod_held' = r.node
         /\ prod_pc' = (IF r.node = NULL THEN "fault" ELSE "publish")
  /\ UNCHANGED <<pc, nupdates, ret, drv_vars, sess_vars, updqueue, queuesem,
                 g_fbsem, upd_vars, hist_vars>>

\* publish(descriptor): append to the pending list, post queuesem; the
\* capture driver then goes on with the next update or waits for the
\* capture-ready signal again
publish ==
  /\ prod_pc = "publish"
  /\ Len(pubSeq) < MaxPub
  /\ LET r == sq_addlast(updqueue, flink, prod_held)
     IN  /\ updqueue' = r.q
         /\ flink' = r.fl
         /\ queuesem' = queuesem + 1
         /\ pubSeq' = Append(pubSeq, prod_held)
  /\ prod_held' = NULL
  /\ \E again \in BOOLEAN : prod_pc' = (IF again THEN "acquire" ELSE "wait")
  /\ UNCHANGED <<pc, nupdates, ret, drv_vars, sess_vars, updfree, freesem,
                 g_fbsem, upd_vars, cycle, prev, consSeq>>

(* ------------------------ updater (consumer) contract ------------------ *)

\* consume_pending(): wait on queuesem, then take the head of the pending
\* list; the updater stops consuming when the list hands it NULL
consume_pending ==
  /\ updater
  /\ cons_pc = "run"
  /\ cons_held = NULL
  /\ queuesem > 0
  /\ LET r == sq_remfirst(updqueue, flink)
     IN  /\ queuesem' = queuesem - 1
         /\ updqueue' = r.q
         /\ flink' = r.fl
         /\ cons_held' = r.node
         /\ cons_pc' = (IF r.node = NULL THEN "fault" ELSE "run")
         /\ consSeq' = Append(consSeq, r.node)
  /\ UNCHANGED <<pc, nupdates, ret, drv_vars, sess_vars, updfree, freesem,
                 g_fbsem, updater, prod_vars, cycle, prev, pubSeq>>

\* release_free(descriptor): append to the free list, post freesem
release_free ==
  /\ updater
  /\ cons_pc = "run"
  /\ cons_held # NULL
  /\ LET r == sq_addlast(updfree, flink, cons_held)
     IN  /\ updfree' = r.q
         /\ flink' = r.fl
         /\ freesem' = freesem + 1
  /\ cons_held' = NULL
  /\ UNCHANGED <<pc, nupdates, ret, drv_vars, sess_vars, updqueue, queuesem,
                 g_fbsem, updater, cons_pc, prod_vars, hist_vars>>

(* ------------------------------ specification -------------------------- *)

\* lines 363-375: the value vnc_find_session returns
vnc_find_session(d) ==
  IF d >= 0 /\ d < RFB_MAX_DISPLAYS THEN g_vnc_sessions[d] ELSE NULL

\* every variable but the record of the last lookup
nonfind_vars ==
  <<pc, nupdates, display, ret, fb, fbfreed, exitcode, g_vnc_sessions, cause,
    other_sessions, sess_vars, queue_vars, g_fbsem, upd_vars, prod_vars,
    hist_vars>>

\* lines 363-375: a call of vnc_find_session from any thread; with assertions
\* compiled in, DEBUGASSERT (line 367) stops the caller on a display number
\* out of range
vnc_find_session_call ==
  /\ \E d \in (-1)..RFB_MAX_DISPLAYS, asserts \in BOOLEAN :
       /\ find_arg' = d
       /\ found' = IF asserts /\ ~(d >= 0 /\ d < RFB_MAX_DISPLAYS)
                   THEN [aborted |-> TRUE, session |-> NULL]
                   ELSE [aborted |-> FALSE, session |-> vnc_find_session(d)]
  /\ UNCHANGED nonfind_vars

\* lines 269-321 run by the vnc_server of another display (before this
\* server has read its display number, of any display): it registers its
\* own session record, moves it through the session states and posts or
\* clears its own g_fbsem[] slot
other_display_server ==
  /\ \E d \in Displays,
        st \in VNCSERVER_INITIALIZED..VNCSERVER_RUNNING, ready \in 0..1 :
       /\ pc = "start" \/ d # display
       /\ g_vnc_sessions' = [g_vnc_sessions EXCEPT ![d] = OtherSession(d)]
       /\ other_sessions' =
            [other_sessions EXCEPT ![d] =
               [state |-> st, listen |-> st >= VNCSERVER_CONNECTED,
                connect |-> st >= VNCSERVER_CONNECTED]]
       /\ g_fbsem' = [g_fbsem EXCEPT ![d] =
                        IF st = VNCSERVER_RUNNING THEN ready ELSE 0]
  /\ UNCHANGED <<pc, nupdates, display, ret, fb, fbfreed, exitcode, cause,
                 find_arg, found, sess_vars, queue_vars, upd_vars, prod_vars,
                 hist_vars>>

Next ==
  \/ vnc_server_startup
  \/ vnc_server_reset
  \/ vnc_server_clear_fbsem
  \/ vnc_server_connect
  \/ vnc_server_negotiate
  \/ vnc_server_start_updater
  \/ vnc_server_post_fbsem
  \/ vnc_server_receiver
  \/ vnc_server_stop_updater
  \/ producer_wait_ready
  \/ acquire_free
  \/ publish
  \/ consume_pending
  \/ release_free

Spec == Init /\ [][Next]_vars

\* the steps of the vnc_server thread of this display
vnc_server_step ==
  \/ vnc_server_startup
  \/ vnc_server_reset
  \/ vnc_server_clear_fbsem
  \/ vnc_server_connect
  \/ vnc_server_negotiate
  \/ vnc_server_start_updater
  \/ vnc_server_post_fbsem
  \/ vnc_server_receiver
  \/ vnc_server_stop_updater

\* every call made by the loop returns: the server thread is never stopped
\* for ever at a step it can take
FairSpec == Spec /\ WF_vars(vnc_server_step)

\* the server thread of this display next to the servers of the other
\* displays and to lookups in the registry
DisplaysNext ==
  \/ vnc_server_startup
  \/ vnc_server_reset
  \/ vnc_server_clear_fbsem
  \/ vnc_server_connect
  \/ vnc_server_negotiate
  \/ vnc_server_start_updater
  \/ vnc_server_post_fbsem
  \/ vnc_server_receiver
  \/ vnc_server_stop_updater
  \/ vnc_find_session_call
  \/ other_display_server

SpecDisplays == Init /\ [][DisplaysNext]_vars

TypeOK ==
  /\ nupdates \in 1..MaxNUpdates
  /\ state \in 0..3
  /\ freesem \in Nat
  /\ queuesem \in Nat
  /\ FbSem \in 0..1

(* ------------------------------- claims -------------------------------- *)

FreeList == Members(updfree, flink)
PendingList == Members(updqueue, flink)
HeldSeq == (IF prod_held # NULL THEN <<prod_held>> ELSE <<>>) \o
           (IF cons_held # NULL THEN <<cons_held>> ELSE <<>>)
Occurrences(seq, d) == Cardinality({i \in 1..Len(seq) : seq[i] = d})

\* C1: vnc_reset_session, called while neither the producer nor the updater
\* has a descriptor checked out, leaves all nupdates descriptors reachable
\* from the free-list head, the pending list empty, freesem at nupdates and
\* queuesem at 0.
C1_ResetRestoresPool ==
  [][(pc = "reset" /\ pc' = "clear_fbsem" /\ prod_held = NULL /\ cons_held = NULL)
       => /\ Len(FreeList') = nupdates
          /\ MemberSet(updfree', flink') = 1..nupdates
          /\ updqueue'.head = NULL
          /\ freesem' = nupdates
          /\ queuesem' = 0]_vars

\* C2: once vnc_reset_session has run, the free list, the pending list and
\* the checked-out descriptors together hold nupdates descriptors, each pool
\* descriptor in exactly one of the three places.
C2_Conservation ==
  state # VNCSERVER_UNINITIALIZED =>
    /\ Len(FreeList) + Len(PendingList) + Len(HeldSeq) = nupdates
    /\ \A d \in 1..nupdates :
         Occurrences(FreeList \o PendingList \o HeldSeq, d) = 1

\* C3: within one connection cycle the descriptors handed out by
\* consume_pending are, in order, the descriptors passed to publish: none is
\* skipped, reordered or delivered twice.
C3_Fifo ==
  /\ Len(consSeq) <= Len(pubSeq)
  /\ \A i \in 1..Len(consSeq) : i <= Len(pubSeq) => consSeq[i] = pubSeq[i]

\* C4: the session state never skips a state: it becomes CONNECTED only from
\* INITIALIZED, by a successful vnc_connect; RUNNING only from CONNECTED,
\* after negotiation and updater start succeeded; and INITIALIZED only by
\* vnc_reset_session.
C4_NoSkippedState ==
  [][state' # state =>
       \/ /\ state' = VNCSERVER_CONNECTED
          /\ state = VNCSERVER_INITIALIZED
          /\ pc = "connect" /\ pc' = "negotiate" /\ ret' = OK
       \/ /\ state' = VNCSERVER_RUNNING
          /\ state = VNCSERVER_CONNECTED
          /\ pc = "start_updater" /\ pc' = "post_fbsem" /\ ret' = OK
          /\ cycle.accepted /\ cycle.negotiated
       \/ /\ state' = VNCSERVER_INITIALIZED
          /\ pc = "reset" /\ pc' = "clear_fbsem"]_vars

\* a second connection has reached RUNNING
C4_Witness ==
  state = VNCSERVER_RUNNING /\ prev \in {"stopped", "stop_fail"}

\* C5: when vnc_negotiate or vnc_start_updater failed, both sockets are
\* closed and the state is INITIALIZED when the next vnc_connect begins.
C5_FailedCycleClosesSockets ==
  (pc = "connect" /\ prev \in {"negotiate_fail", "start_fail"}) =>
    /\ ~listen
    /\ ~connect
    /\ state = VNCSERVER_INITIALIZED

C5_Witness ==
  pc = "connect" /\ prev = "start_fail" /\ ~listen /\ ~connect

\* C7: g_fbsem is posted only by line 321, only after vnc_connect,
\* vnc_negotiate and vnc_start_updater succeeded in the same loop
\* iteration, and at most once per iteration.
C7_PostOnlyAfterUpdaterStart ==
  [][FbSem' > FbSem =>
       /\ pc = "post_fbsem"
       /\ cycle.accepted /\ cycle.negotiated /\ cycle.started
       /\ cycle.posts = 0
       /\ FbSem' = FbSem + 1]_vars

\* the signal has been posted in a second connection cycle
C7_Witness ==
  cycle.posts = 1 /\ cycle.started /\ prev \in {"stopped", "stop_fail"}

\* C8 as claimed: whenever the capture-ready signal is ready, the updater
\* of the current connection has been started and not yet stopped, and the
\* signal is not ready once the queue has been reset for the next
\* connection.
C8_ReadyOnlyWhileUpdaterRuns ==
  /\ FbSem > 0 => (updater /\ cycle.started)
  /\ pc \in {"clear_fbsem", "connect", "negotiate", "start_updater"} =>
       FbSem = 0

\* C8 amended: the capture-ready signal is ready only between the sem_post
\* of line 321, which follows a successful vnc_start_updater in the same
\* loop iteration, and the sem_reset of line 284 in the next iteration; it
\* can still be ready after vnc_stop_updater and vnc_reset_session have
\* run, and it is not ready from line 284 until the next sem_post.
C8_ReadyFromPostToClear ==
  /\ FbSem <= 1
  /\ FbSem > 0 =>
       \/ pc \in {"receiver", "stop_updater"} /\ cycle.started /\ cycle.posts = 1
       \/ pc = "reset" /\ cycle.started /\ cycle.posts = 1
                       /\ prev \in {"stopped", "stop_fail"}
       \/ pc = "clear_fbsem" /\ prev \in {"stopped", "stop_fail"}
  /\ pc \in {"connect", "negotiate", "start_updater", "post_fbsem"} =>
       FbSem = 0

\* the signal is still ready after the updater was stopped and the queue
\* was rebuilt
C8_Witness ==
  FbSem = 1 /\ pc = "clear_fbsem" /\ ~updater /\ state = VNCSERVER_INITIALIZED

\* C6: when vnc_reset_session runs after a RUNNING session, no updater
\* thread is active and no descriptor is checked out by another thread.
C6_QuiescentAtReset ==
  (pc = "reset" /\ cycle.started) =>
    /\ ~updater
    /\ cons_held = NULL
    /\ prod_held = NULL

\* C9 as claimed: while the session is CONNECTED or RUNNING the listening
\* socket is closed and only the connected socket is open.
C9_ListenerClosedAfterAccept ==
  state \in {VNCSERVER_CONNECTED, VNCSERVER_RUNNING} => (~listen /\ connect)

\* C9 amended: vnc_connect leaves the listening socket open after a
\* successful accept; while the session is CONNECTED or RUNNING both the
\* listening and the connected socket are open, and whenever the loop is
\* outside vnc_connect in another state both are closed (the next
\* vnc_reset_session closes them).
C9_ListenerOpenUntilReset ==
  /\ state \in {VNCSERVER_CONNECTED, VNCSERVER_RUNNING} => (listen /\ connect)
  /\ state \in {VNCSERVER_UNINITIALIZED, VNCSERVER_INITIALIZED} =>
       (~listen /\ ~connect)

C9_Witness ==
  state = VNCSERVER_RUNNING /\ listen /\ connect /\ pc = "receiver"

\* C10: when vnc_connect returns an error, the listening socket is not
\* open, no connected socket is open, the session state is unchanged and
\* INITIALIZED, the value returned is negative and the loop goes back to
\* the reset step.
C10_ConnectErrorReleasesListener ==
  [][(pc = "connect" /\ pc' # "connect" /\ (ret' < 0 \/ pc' = "reset")) =>
       /\ ret' < 0
       /\ pc' = "reset"
       /\ ~listen'
       /\ ~connect'
       /\ state' = state
       /\ state' = VNCSERVER_INITIALIZED]_vars

C10_Witness ==
  pc = "reset" /\ prev = "connect_fail" /\ ret = neg_errno("accept_fail")

C12_FindSession ==
  [][vnc_find_session_call =>
       /\ ~found'.aborted
       /\ found'.session =
            (IF find_arg' \in Displays THEN g_vnc_sessions[find_arg'] ELSE NULL)
       /\ UNCHANGED nonfind_vars]_vars

\* ------------------------------------------------------------------------
\* C13: after a reset and with no consumer step, the producer completes
\* exactly N acquire_free+publish pairs, each with a valid descriptor
\* different from the others, and the next acquire_free blocks (freesem is 0
\* exactly when N descriptors were acquired).  Stated for the first
\* connection, where no earlier reset can have interfered.
C13_Backpressure ==
  (/\ prev = "none"
   /\ state # VNCSERVER_UNINITIALIZED
   /\ consSeq = <<>>
   /\ cons_held = NULL) =>
    LET acquired == pubSeq \o
                    (IF prod_held # NULL THEN <<prod_held>> ELSE <<>>)
    IN  /\ prod_pc # "fault"
        /\ Len(acquired) <= nupdates
        /\ \A i \in 1..Len(acquired) : acquired[i] \in 1..nupdates
        /\ \A i, j \in 1..Len(acquired) :
             i # j => acquired[i] # acquired[j]
        /\ (freesem = 0 <=> Len(acquired) = nupdates)

\* ------------------------------------------------------------------------
\* the positions of the vnc_server thread inside its loop (lines 277-340)
LoopPcs ==
  {"reset", "clear_fbsem", "connect", "negotiate", "start_updater",
   "post_fbsem", "receiver", "stop_updater"}

\* C14: when every call made by the loop returns, the loop comes back to
\* vnc_reset_session from every position (so after an accept, negotiation or
\* updater-start failure, a return of the receiver and an updater-stop
\* failure), and from there begins a new accept with the session INITIALIZED,
\* its sockets closed and its registry entry present; the loop, once
\* entered, is never left.
C14_FailureRecoverable ==
  /\ (pc \in LoopPcs) ~> (pc = "reset")
  /\ (pc = "reset") ~>
       (/\ pc = "connect"
        /\ state = VNCSERVER_INITIALIZED
        /\ ~listen /\ ~connect
        /\ g_vnc_sessions[display] = display + 1)
  /\ [][(pc \in LoopPcs) => (pc' \in LoopPcs)]_vars

C14_Witness ==
  /\ pc = "connect"
  /\ prev = "stop_fail"
  /\ state = VNCSERVER_INITIALIZED
  /\ g_vnc_sessions[display] = display + 1

\* ------------------------------------------------------------------------
\* C15: every step of the vnc_server of display d, its startup failures and
\* per-connection failures included, leaves the registry entry, the session
\* record and the capture-ready signal of every other display unchanged.
C15_DisplayIsolation ==
  [][vnc_server_step =>
       \A d \in Displays \ {display'} :
         /\ g_vnc_sessions'[d] = g_vnc_sessions[d]
         /\ other_sessions'[d] = other_sessions[d]
         /\ g_fbsem'[d] = g_fbsem[d]]_vars

C15_Witness ==
  /\ pc = "connect"
  /\ prev = "stopped"
  /\ \E d \in Displays \ {display} :
       /\ g_vnc_sessions[d] = OtherSession(d)
       /\ other_sessions[d].state = VNCSERVER_RUNNING
       /\ g_fbsem[d] = 1

\* ------------------------------------------------------------------------
\* C16: vnc_reset_session never deallocates or replaces the session record
\* or the framebuffer: after every reset session->fb is the buffer allocated
\* at startup, the registry entry of the display still points to the same
\* session record, and the reset step changes nothing but the sockets, the
\* state, the queue and the two queue semaphores.
C16_ResetKeepsRecordAndFb ==
  /\ []((pc \in LoopPcs \ {"reset"}) =>
          /\ session_fb = fb
          /\ fb # NULL
          /\ ~fbfreed
          /\ g_vnc_sessions[display] = display + 1)
  /\ [][(pc = "reset" /\ pc' # "reset") =>
          /\ session_fb' = fb
          /\ UNCHANGED <<nupdates, display, fb, fbfreed, exitcode, cause,
                         g_vnc_sessions, other_sessions, g_fbsem>>]_vars

C16_Witness ==
  /\ pc = "clear_fbsem"
  /\ prev = "stopped"
  /\ session_fb = fb
  /\ fb # NULL
  /\ g_vnc_sessions[display] = display + 1

\* ------------------------------------------------------------------------
\* C17: a descriptor is owned by one party at a time: what the producer has
\* checked out is neither checked out by the updater nor in the free list
\* or the pending list, and likewise for what the updater has checked out,
\* under every interleaving of the producer, the updater and the server
\* loop.
C17_ExclusiveOwnership ==
  /\ prod_held # NULL =>
       /\ prod_held # cons_held
       /\ prod_held \notin MemberSet(updfree, flink)
       /\ prod_held \notin MemberSet(updqueue, flink)
  /\ cons_held # NULL =>
       /\ cons_held \notin MemberSet(updfree, flink)
       /\ cons_held \notin MemberSet(updqueue, flink)

\* ------------------------------------------------------------------------
\* C18: once the session has been reset, freesem never exceeds the number of
\* descriptors reachable from the free-list head and queuesem never exceeds
\* the number of descriptors in the pending list, so a thread that passed a
\* semaphore has always removed a non-null descriptor.
C18_SemaphoreListConsistency ==
  state # VNCSERVER_UNINITIALIZED =>
    /\ freesem <= Len(FreeList)
    /\ queuesem <= Len(PendingList)
    /\ prod_pc # "fault"
    /\ cons_pc # "fault"

\* ------------------------------------------------------------------------
\* C19: psock_close is never applied to a socket that is not open (not at
\* the first reset, not a second time after the error path of vnc_connect
\* closed the listener), and every socket opened by vnc_connect has been
\* closed, by its error path or by vnc_reset_session, when the loop calls
\* vnc_connect again.
C19_CloseOncePerOpen ==
  /\ ~badclose
  /\ (pc \in {"clear_fbsem", "connect"}) => (~listen /\ ~connect)
  /\ (pc = "reset" /\ state < VNCSERVER_CONNECTED) => (~listen /\ ~connect)
  /\ (pc = "reset" /\ state >= VNCSERVER_CONNECTED) => (listen /\ connect)

C19_Witness ==
  /\ ~badclose
  /\ pc = "connect"
  /\ cycle.posts = 0
  /\ prev = "stopped"
  /\ ~listen /\ ~connect

====
